---- MODULE Spec2Model ----
(***************************************************************************)
(* Model of the book compiler's build step (compile_book.main), the cover  *)
(* page's temporary file (PDFBook.add_cover_page) and the photocopy        *)
(* pipeline (photocopy_effect.apply_photocopy_effect and the stage         *)
(* functions nested in it).                                                *)
(*                                                                         *)
(* Spec       the document build: cover page, output / temp_book.pdf, the  *)
(*            page loop and the stages of add_photocopy_effect.            *)
(* Images are tracked by size and PIL mode; pixel-level behaviour of       *)
(* single stages is modelled by the other specifications further down.     *)
(***************************************************************************)
EXTENDS Integers, Sequences, FiniteSets, TLC

VARIABLES
    caller,        \* "main": compile_book.main; "direct": apply_photocopy_effect called as a function
    no_effect,     \* args.no_effect
    blank_cover,   \* args.blank_cover
    color_mode,    \* the color_mode argument of apply_photocopy_effect
    pc,            \* position in main / add_cover_page / apply_photocopy_effect
    files,         \* temporary files that exist on disk
    created,       \* temporary files this build has created (history)
    rendered,      \* number of pages pdf holds after the chapter loop (0 before)
    output_doc,    \* the document written to output_pdf by this run, or NoDoc
    invoked,       \* apply_photocopy_effect has been called (history)
    doc,           \* the open fitz document: one content state per page
    page_index,    \* loop variable of the page loop
    image,         \* the PIL image of the page being processed, or NoImage
    raster_size,   \* size of the image handed to add_photocopy_effect (img.size)
    entry_size,    \* (width, height) captured at line 11
    binding_side,  \* local binding_side of add_photocopy_effect
    rotated_size,  \* size of the image between rotate(expand=True) and crop
    stage_log,     \* stages that have produced their output for the current page
    binding_log,   \* history: (page_index, stage, binding side the stage received)
    page_status,   \* "idle" | "running" | "returned" | "raised" for the current page
    events,        \* what the page loop has done so far, in order
    \* add_dark_edges, one pixel through the three multiplications (SpecMul)
    px,            \* intensity of the pixel
    mask_step,     \* number of masks multiplied in so far
    darkened,      \* some mask has strictly lowered the pixel (history)
    \* adjust_brightness_based_on_text on a small array (SpecBright)
    b_arr,         \* np.array(image), flattened
    b_out,         \* the enhanced image, flattened (<<>> before the call returns)
    b_pc,          \* "call" | "done"
    b_factor,      \* brightness_factor as <<numerator, denominator>>
    \* add_dark_edges, the binding-dependent masks of two facing pages (SpecEdges)
    e_size,        \* image.size
    e_page,        \* page_number of the page whose masks are being built
    e_pc,          \* position in add_dark_edges
    e_shadow,      \* page_number -> the mask `shadow`, one entry per column
    e_thickness,   \* page_number -> the mask `thickness_shadow`, one entry per column
    \* round_corners on one pixel (SpecCorners)
    c_size,        \* image.size
    c_page,        \* page_number, which gives binding_side
    c_pos,         \* <<x, y>> of the pixel
    c_base,        \* mode of the image handed to round_corners
    c_in,          \* intensity of the pixel in that image
    c_mode,        \* mode of `image` now
    c_px,          \* intensity of the pixel now
    c_alpha,       \* alpha band at the pixel, -1 while the image has none
    c_pc,          \* position in round_corners
    \* the chapter loop of main (SpecChapters)
    t_test,        \* args.test
    t_chapters,    \* len(chapters)
    t_i,           \* chapters taken from the list so far
    t_page_no,     \* pdf.page_no()
    t_pc,          \* position in the loop
    \* add_toner_smudges, the rows and intensities of one column (SpecSmudge)
    s_height,      \* height of the image
    s_mono,        \* color_mode == 'mono'
    s_band_y,      \* band_y
    s_band_height, \* band_height
    s_base,        \* base_intensity, or one channel of base_color
    s_lines,       \* lines finished so far
    s_line_height, \* line_height of the line being drawn
    s_y,           \* y_offset
    s_row,         \* row of the last draw.point, -1 before the first
    s_plain,       \* intensity computed for that point before the variation
    s_written,     \* fill handed to draw.point
    s_drawn,       \* whether the point lies on the canvas
    s_pc,          \* position in add_toner_smudges
    \* PDFBook.set_font_with_fallback (SpecFont)
    f_prefs,       \* self.font_preferences
    f_active,      \* self.active_font, "none" for None
    f_current,     \* the font the document has selected (last successful set_font)
    f_settable,    \* the fonts set_font accepted in the last call
    f_result,      \* how the last call ended: "returned" or "raised"
    f_calls        \* calls made so far

mainVars == <<caller, no_effect, blank_cover, color_mode, pc, files, created,
              rendered, output_doc, invoked, doc, page_index, image,
              raster_size, entry_size, binding_side, rotated_size, stage_log,
              binding_log, page_status, events>>

mulVars == <<px, mask_step, darkened>>
brightVars == <<b_arr, b_out, b_pc, b_factor>>
edgeVars == <<e_size, e_page, e_pc, e_shadow, e_thickness>>
cornerVars == <<c_size, c_page, c_pos, c_base, c_in, c_mode, c_px, c_alpha, c_pc>>
chapterVars == <<t_test, t_chapters, t_i, t_page_no, t_pc>>
smudgeVars == <<s_height, s_mono, s_band_y, s_band_height, s_base, s_lines, s_line_height, s_y, s_row, s_plain, s_written, s_drawn, s_pc>>
fontVars == <<f_prefs, f_active, f_current, f_settable, f_result, f_calls>>

\* what the actions of the document build leave alone
pureVars == <<mulVars, brightVars, edgeVars, cornerVars, chapterVars, smudgeVars, fontVars>>

vars == <<mainVars, mulVars, brightVars, edgeVars, cornerVars, chapterVars, smudgeVars, fontVars>>

-----------------------------------------------------------------------------
(* Bounds and input sets                                                   *)

MaxPages == 2

\* the values color_mode is given: the two the stages branch on ('mono' at
\* lines 14, 44; 'color' is what the other branches are written for), and
\* one that is neither
ColorModes == {"mono", "color", "sepia"}

\* Sizes of the rasterized page: small pages, portrait and landscape, and
\* FPDF's A4 page at Matrix(2, 2).
PageSizes == {<<100, 140>>, <<141, 75>>, <<1190, 1684>>, <<1191, 1684>>}

\* np.random.uniform(-0.5, 0.5), in tenths of a degree: -0.5 <= angle < 0.5
AngleSteps == -5 .. 4

NoDoc == <<<<"none">>>>
NoImage == [w |-> 0, h |-> 0, mode |-> "none", smudged |-> FALSE,
            scanlines |-> FALSE]
NoSize == <<0, 0>>

TempBook == "temp_book.pdf"
TempCover == "temp_cover.png"

\* The stages of add_photocopy_effect, lines 23-42, in call order.
StageOrder == <<"smudge", "warp", "edges", "rotate_crop", "noise", "scanline",
                "brightness">>

-----------------------------------------------------------------------------
(* Pure helpers                                                            *)

\* -(-x // d): math.ceil of x/d for d > 0
CeilDiv(x, d) == -((-x) \div d)

Abs(x) == IF x < 0 THEN -x ELSE x

\* Fixed point scale of the rotation matrix entries.
TrigScale == 1000000

\* math.radians of a tenth of a degree, in microradians (1745.33 truncated)
MicroRadPerStep == 1745

\* |sin(angle)| * TrigScale; the cubic term is below 1e-7 for |angle| <= 0.5 deg
SinS(a) == Abs(a) * MicroRadPerStep

\* cos(angle) * TrigScale = 1 - theta^2 / 2
CosS(a) == TrigScale - ((SinS(a) * SinS(a)) \div (2 * TrigScale))

\* Image.rotate(angle, expand=True): size of the expanded canvas.  The four
\* corners are rotated about the centre, so max(xx) = w + D/2 and
\* min(xx) = -D/2 with D = w*|cos| + h*|sin| - w, and
\* nw = ceil(max(xx)) - floor(min(xx)).  angle % 360 == 0 returns a copy.
RotateExpandSize(w, h, a) ==
    IF a = 0 THEN <<w, h>>
    ELSE LET dx == h * SinS(a) - w * (TrigScale - CosS(a))
             dy == w * SinS(a) - h * (TrigScale - CosS(a))
         IN  <<w + 2 * CeilDiv(dx, 2 * TrigScale),
               h + 2 * CeilDiv(dy, 2 * TrigScale)>>

\* the crop box given as (left, upper, width, height)
CropBoxAsExtent(iw, ih, width, height) ==
    LET left == (iw - width) \div 2
        top  == (ih - height) \div 2
    IN  <<left, top, width, height>>

\* lines 36-38: the crop box (left, upper, right, lower)
CropBox(iw, ih, width, height) ==
    LET left == (iw - width) \div 2
        top  == (ih - height) \div 2
    IN  <<left, top, left + width, top + height>>

\* Image.crop(box).size
CropSize(box) == <<box[3] - box[1], box[4] - box[2]>>

\* lines 14-17: a conversion that does not look at color_mode
ConvertModeAlwaysRGB(cm) == "RGB"

\* lines 14-17: mode after the conversion at entry
ConvertMode(cm) == IF cm = "mono" THEN "L" ELSE "RGB"

\* line 371
PageNumber(index) == index + 1

\* the binding side taken from the parity with the sides exchanged
BindingSideExchanged(page_number) ==
    IF (page_number % 2) = 1 THEN "right" ELSE "left"

\* lines 19-20
BindingSide(page_number) ==
    IF (page_number % 2) = 1 THEN "left" ELSE "right"

\* the branch of line 179 never taken
SkipEffectIgnored(ne) == FALSE

\* line 179: the branch of main's try block
SkipEffect(ne) == ne

\* the loop left after its first iteration
LoopDoneAfterFirst(index, total_pages) == index >= 1

\* line 370: the page loop has run through range(total_pages)
LoopDone(index, total_pages) == index >= total_pages

\* line 370, for index in range(total_pages): the index after `index`
NextIndex(index) == index + 1

\* an entry of `events`: what was done, and the loop index it was done at
Event(what, index) == [ev |-> what, index |-> index]

\* A page is the sequence of what its content stream draws, in drawing
\* order.  What pdf.output has rendered on a page (text, cover, header):
RenderedPage == <<"rendering">>

\* line 379, page.clean_contents(): PyMuPDF cleans the syntax of the content
\* streams and joins them into one; nothing the page draws is removed
CleanedContents(page) == SelectSeq(page, LAMBDA item : TRUE)

\* line 381, page.insert_image(rect, stream=...): the image is drawn over
\* the whole page after what the page already draws (overlay is the default)
WithImage(page) == Append(page, "image")

\* the last thing the page draws is the inserted image
HasImage(page) == Len(page) > 0 /\ page[Len(page)] = "image"

\* pdf.output: the rendering of n pages, none of them touched
Rendering(n) == [i \in 1 .. n |-> RenderedPage]

-----------------------------------------------------------------------------
(* Initial state                                                           *)

MainInit ==
    /\ caller \in {"main", "direct"}
    /\ no_effect \in (IF caller = "main" THEN BOOLEAN ELSE {FALSE})
    /\ blank_cover \in (IF caller = "main" THEN BOOLEAN ELSE {FALSE})
    /\ color_mode \in (IF caller = "main" THEN {"mono"} ELSE ColorModes)
    /\ pc = IF caller = "main" THEN "add_cover_page" ELSE "apply"
    /\ files = {}
    /\ created = {}
    /\ rendered = 0
    /\ output_doc = NoDoc
    /\ invoked = FALSE
    /\ doc = <<>>
    /\ page_index = 0
    /\ events = <<>>
    /\ image = NoImage
    /\ raster_size = NoSize
    /\ entry_size = NoSize
    /\ binding_side = "none"
    /\ rotated_size = NoSize
    /\ stage_log = <<>>
    /\ binding_log = {}
    /\ page_status = "idle"

-----------------------------------------------------------------------------
(* PDFBook.add_cover_page, pdf_book.py lines 158-230                       *)

coverFrame == <<caller, no_effect, blank_cover, color_mode, rendered, output_doc,
                invoked, doc, page_index, image, raster_size, entry_size,
                binding_side, rotated_size, stage_log, binding_log, page_status>>

\* lines 161-162
CoverBlank ==
    /\ pc = "add_cover_page"
    /\ UNCHANGED pureVars
    /\ UNCHANGED events
    /\ blank_cover
    /\ pc' = "chapters"
    /\ UNCHANGED <<files, created>>
    /\ UNCHANGED coverFrame

\* lines 165-176: cairosvg cannot be imported, cover.svg does not exist, or
\* svg2png / Image.open raises before the temporary file is opened
CoverSvgUnavailable ==
    /\ pc = "add_cover_page"
    /\ UNCHANGED pureVars
    /\ UNCHANGED events
    /\ ~blank_cover
    /\ pc' = "jpg_fallback"
    /\ UNCHANGED <<files, created>>
    /\ UNCHANGED coverFrame

\* lines 191-193: open(temp_png, "wb") creates the file; f.write may raise
CoverWriteTemp ==
    /\ pc = "add_cover_page"
    /\ UNCHANGED pureVars
    /\ UNCHANGED events
    /\ ~blank_cover
    /\ files' = files \cup {TempCover}
    /\ created' = created \cup {TempCover}
    /\ \E ok \in BOOLEAN : pc' = IF ok THEN "embed_cover" ELSE "jpg_fallback"
    /\ UNCHANGED coverFrame

\* line 196: self.image(temp_png, ...); an exception goes to line 202
CoverEmbed ==
    /\ pc = "embed_cover"
    /\ UNCHANGED pureVars
    /\ UNCHANGED events
    /\ \E ok \in BOOLEAN : pc' = IF ok THEN "remove_cover" ELSE "jpg_fallback"
    /\ UNCHANGED <<files, created>>
    /\ UNCHANGED coverFrame

\* lines 199-200: os.remove(temp_png); return
CoverRemoveTemp ==
    /\ pc = "remove_cover"
    /\ UNCHANGED pureVars
    /\ UNCHANGED events
    /\ files' = files \ {TempCover}
    /\ pc' = "chapters"
    /\ UNCHANGED created
    /\ UNCHANGED coverFrame

\* lines 202-230: the except clause prints and the JPG / text cover is drawn
CoverJpgFallback ==
    /\ pc = "jpg_fallback"
    /\ UNCHANGED pureVars
    /\ UNCHANGED events
    /\ pc' = "chapters"
    /\ UNCHANGED <<files, created>>
    /\ UNCHANGED coverFrame

-----------------------------------------------------------------------------
(* compile_book.main, lines 155-191                                        *)

\* lines 156-161: the chapter loop leaves pdf with some number of pages
AddChapters ==
    /\ pc = "chapters"
    /\ UNCHANGED pureVars
    /\ UNCHANGED events
    /\ \E n \in 1 .. MaxPages : rendered' = n
    /\ pc' = "try"
    /\ UNCHANGED <<caller, no_effect, blank_cover, color_mode, files, created,
                   output_doc, invoked, doc, page_index, image, raster_size,
                   entry_size, binding_side, rotated_size, stage_log,
                   binding_log, page_status>>

\* lines 179-181: pdf.output(output_pdf); an exception goes to line 188
OutputNoEffect ==
    /\ pc = "try"
    /\ UNCHANGED pureVars
    /\ UNCHANGED events
    /\ SkipEffect(no_effect)
    /\ \E ok \in BOOLEAN :
         IF ok THEN /\ output_doc' = Rendering(rendered)
                    /\ pc' = "done"
               ELSE /\ output_doc' = output_doc
                    /\ pc' = "except"
    /\ UNCHANGED <<caller, no_effect, blank_cover, color_mode, files, created,
                   rendered, invoked, doc, page_index, image, raster_size,
                   entry_size, binding_side, rotated_size, stage_log,
                   binding_log, page_status>>

\* line 183: pdf.output("temp_book.pdf"); a failed write may leave the file
OutputTemp ==
    /\ pc = "try"
    /\ UNCHANGED pureVars
    /\ UNCHANGED events
    /\ ~SkipEffect(no_effect)
    /\ \E ok \in BOOLEAN, left \in BOOLEAN :
         IF ok THEN /\ files' = files \cup {TempBook}
                    /\ created' = created \cup {TempBook}
                    /\ pc' = "apply"
               ELSE /\ files' = IF left THEN files \cup {TempBook} ELSE files
                    /\ created' = IF left THEN created \cup {TempBook} ELSE created
                    /\ pc' = "except"
    /\ UNCHANGED <<caller, no_effect, blank_cover, color_mode, rendered,
                   output_doc, invoked, doc, page_index, image, raster_size,
                   entry_size, binding_side, rotated_size, stage_log,
                   binding_log, page_status>>

\* line 186: os.remove("temp_book.pdf") after apply_photocopy_effect returned
RemoveTemp ==
    /\ pc = "remove_temp"
    /\ UNCHANGED pureVars
    /\ UNCHANGED events
    /\ files' = files \ {TempBook}
    /\ pc' = "done"
    /\ UNCHANGED <<caller, no_effect, blank_cover, color_mode, created, rendered,
                   output_doc, invoked, doc, page_index, image, raster_size,
                   entry_size, binding_side, rotated_size, stage_log,
                   binding_log, page_status>>

\* lines 188-191: except Exception: remove temp_book.pdf if it exists
Except ==
    /\ pc = "except"
    /\ UNCHANGED pureVars
    /\ UNCHANGED events
    /\ files' = files \ {TempBook}
    /\ pc' = "done"
    /\ UNCHANGED <<caller, no_effect, blank_cover, color_mode, created, rendered,
                   output_doc, invoked, doc, page_index, image, raster_size,
                   entry_size, binding_side, rotated_size, stage_log,
                   binding_log, page_status>>

-----------------------------------------------------------------------------
(* apply_photocopy_effect, photocopy_effect.py lines 368-382               *)

\* Where an exception raised inside apply_photocopy_effect lands: main's
\* except clause, or the caller of the function.
RaiseTarget == IF caller = "main" THEN "except" ELSE "raised"

\* line 368: fitz.open(input_pdf_path); line 369: total_pages = len(doc)
OpenDoc ==
    /\ pc = "apply"
    /\ UNCHANGED pureVars
    /\ UNCHANGED events
    /\ invoked' = TRUE
    /\ \E ok \in BOOLEAN, n \in 1 .. MaxPages :
         IF ok THEN /\ doc' = Rendering(IF caller = "main" THEN rendered ELSE n)
                    /\ pc' = "loop"
               ELSE /\ doc' = doc
                    /\ pc' = RaiseTarget
    /\ page_index' = 0
    /\ UNCHANGED <<caller, no_effect, blank_cover, color_mode, files, created,
                   rendered, output_doc, image, raster_size, entry_size,
                   binding_side, rotated_size, stage_log, binding_log,
                   page_status>>

\* lines 370-376: next page; get_pixmap and Image.open give the page image,
\* or raise for a page that cannot be rendered
Rasterize ==
    /\ pc = "loop"
    /\ UNCHANGED pureVars
    /\ ~LoopDone(page_index, Len(doc))
    /\ \E ok \in BOOLEAN, size \in PageSizes :
         IF ok THEN /\ image' = [w |-> size[1], h |-> size[2], mode |-> "RGB",
                                  smudged |-> FALSE, scanlines |-> FALSE]
                    /\ raster_size' = size
                    /\ page_status' = "running"
                    /\ events' = Append(events, Event("rasterize", page_index))
                    /\ pc' = "add_photocopy_effect"
               ELSE /\ image' = NoImage
                    /\ raster_size' = NoSize
                    /\ page_status' = "raised"
                    /\ events' = events
                    /\ pc' = RaiseTarget
    /\ entry_size' = NoSize
    /\ binding_side' = "none"
    /\ rotated_size' = NoSize
    /\ stage_log' = <<>>
    /\ UNCHANGED <<caller, no_effect, blank_cover, color_mode, files, created,
                   rendered, output_doc, invoked, doc, page_index, binding_log>>

stageFrame == <<caller, no_effect, blank_cover, color_mode, files, created,
                rendered, output_doc, invoked, doc, page_index, raster_size>>

\* lines 11-20: capture the size, convert, derive the binding side
EnterEffect ==
    /\ pc = "add_photocopy_effect"
    /\ UNCHANGED pureVars
    /\ UNCHANGED events
    /\ entry_size' = <<image.w, image.h>>
    /\ image' = [image EXCEPT !.mode = ConvertMode(color_mode)]
    /\ binding_side' = BindingSide(PageNumber(page_index))
    /\ pc' = "smudge"
    /\ UNCHANGED <<rotated_size, stage_log, binding_log, page_status>>
    /\ UNCHANGED stageFrame

\* line 23, add_toner_smudges (lines 48-146): np.random.random() < 0.1 decides
\* whether the smudge layer is multiplied / blended in; size and mode stay
Smudge ==
    /\ pc = "smudge"
    /\ UNCHANGED pureVars
    /\ UNCHANGED events
    /\ \E trigger \in BOOLEAN : image' = [image EXCEPT !.smudged = trigger]
    /\ stage_log' = Append(stage_log, "smudge")
    /\ pc' = "warp"
    /\ UNCHANGED <<entry_size, binding_side, rotated_size, binding_log,
                   page_status>>
    /\ UNCHANGED stageFrame

\* line 25, simulate_page_curl (lines 149-207) with round_corners (209-223).
\* map_coordinates gets two coordinate arrays: a 3-D array (mode RGB) is a
\* RuntimeError; an L image is warped, given an alpha band and converted to L.
Warp ==
    /\ pc = "warp"
    /\ UNCHANGED pureVars
    /\ UNCHANGED events
    /\ IF image.mode = "L"
         THEN /\ image' = [image EXCEPT !.mode = "L"]
              /\ stage_log' = Append(stage_log, "warp")
              /\ binding_log' = binding_log \cup
                    {[index |-> page_index, stage |-> s,
                      side |-> binding_side] : s \in {"warp", "round_corners"}}
              /\ page_status' = page_status
              /\ pc' = "edges"
         ELSE /\ image' = image
              /\ stage_log' = stage_log
              /\ binding_log' = binding_log \cup
                    {[index |-> page_index, stage |-> "warp",
                      side |-> binding_side]}
              /\ page_status' = "raised"
              /\ pc' = RaiseTarget
    /\ UNCHANGED <<entry_size, binding_side, rotated_size>>
    /\ UNCHANGED stageFrame

\* line 26, add_dark_edges (lines 225-315)
Edges ==
    /\ pc = "edges"
    /\ UNCHANGED pureVars
    /\ UNCHANGED events
    /\ stage_log' = Append(stage_log, "edges")
    /\ binding_log' = binding_log \cup
          {[index |-> page_index, stage |-> "edges",
            side |-> binding_side]}
    /\ pc' = "rotate_crop"
    /\ UNCHANGED <<image, entry_size, binding_side, rotated_size, page_status>>
    /\ UNCHANGED stageFrame

\* lines 28-38: rotate by a random angle with expansion, crop to the entry size
RotateCrop ==
    /\ pc = "rotate_crop"
    /\ UNCHANGED pureVars
    /\ UNCHANGED events
    /\ \E a \in AngleSteps :
         LET r == RotateExpandSize(image.w, image.h, a)
             s == CropSize(CropBox(r[1], r[2], entry_size[1], entry_size[2]))
         IN  /\ rotated_size' = r
             /\ image' = [image EXCEPT !.w = s[1], !.h = s[2]]
    /\ stage_log' = Append(stage_log, "rotate_crop")
    /\ pc' = "noise"
    /\ UNCHANGED <<entry_size, binding_side, binding_log, page_status>>
    /\ UNCHANGED stageFrame

\* line 40, add_noise (lines 317-331)
Noise ==
    /\ pc = "noise"
    /\ UNCHANGED pureVars
    /\ UNCHANGED events
    /\ stage_log' = Append(stage_log, "noise")
    /\ pc' = "scanline"
    /\ UNCHANGED <<image, entry_size, binding_side, rotated_size, binding_log,
                   page_status>>
    /\ UNCHANGED stageFrame

\* line 41, add_scanlines (lines 333-356): returns the image when
\* np.random.random() > 0.2, else its product with the scanline layer
Scanline ==
    /\ pc = "scanline"
    /\ UNCHANGED pureVars
    /\ UNCHANGED events
    /\ \E trigger \in BOOLEAN : image' = [image EXCEPT !.scanlines = trigger]
    /\ stage_log' = Append(stage_log, "scanline")
    /\ pc' = "brightness"
    /\ UNCHANGED <<entry_size, binding_side, rotated_size, binding_log,
                   page_status>>
    /\ UNCHANGED stageFrame

\* line 42, adjust_brightness_based_on_text (lines 358-366)
Brightness ==
    /\ pc = "brightness"
    /\ UNCHANGED pureVars
    /\ UNCHANGED events
    /\ stage_log' = Append(stage_log, "brightness")
    /\ pc' = "return"
    /\ UNCHANGED <<image, entry_size, binding_side, rotated_size, binding_log,
                   page_status>>
    /\ UNCHANGED stageFrame

\* lines 44-46: mono images go back to RGB; return
ReturnImage ==
    /\ pc = "return"
    /\ UNCHANGED pureVars
    /\ events' = Append(events, Event("degrade", page_index))
    /\ image' = [image EXCEPT !.mode = IF color_mode = "mono" THEN "RGB" ELSE @]
    /\ page_status' = "returned"
    /\ pc' = "clean_contents"
    /\ UNCHANGED <<entry_size, binding_side, rotated_size, stage_log,
                   binding_log>>
    /\ UNCHANGED stageFrame

\* lines 377-379: encode as PNG, page.clean_contents()
CleanContents ==
    /\ pc = "clean_contents"
    /\ UNCHANGED pureVars
    /\ events' = Append(events, Event("clean", page_index))
    /\ doc' = [doc EXCEPT ![page_index + 1] = CleanedContents(@)]
    /\ pc' = "insert_image"
    /\ UNCHANGED <<caller, no_effect, blank_cover, color_mode, files, created,
                   rendered, output_doc, invoked, page_index, image,
                   raster_size, entry_size, binding_side, rotated_size,
                   stage_log, binding_log, page_status>>

\* lines 380-381: page.insert_image(rect, stream=...); the loop moves on
InsertImage ==
    /\ pc = "insert_image"
    /\ UNCHANGED pureVars
    /\ events' = Append(events, Event("insert", page_index))
    /\ doc' = [doc EXCEPT ![page_index + 1] = WithImage(@)]
    /\ page_index' = NextIndex(page_index)
    /\ page_status' = "idle"
    /\ pc' = "loop"
    /\ UNCHANGED <<caller, no_effect, blank_cover, color_mode, files, created,
                   rendered, output_doc, invoked, image, raster_size,
                   entry_size, binding_side, rotated_size, stage_log,
                   binding_log>>

\* line 382: doc.save(output_pdf_path) after the loop; then the function returns
SaveDoc ==
    /\ pc = "loop"
    /\ UNCHANGED pureVars
    /\ LoopDone(page_index, Len(doc))
    /\ \E ok \in BOOLEAN :
         IF ok THEN /\ output_doc' = doc
                    /\ events' = Append(events, Event("save", page_index))
                    /\ pc' = IF caller = "main" THEN "remove_temp" ELSE "done"
               ELSE /\ output_doc' = output_doc
                    /\ events' = events
                    /\ pc' = RaiseTarget
    /\ UNCHANGED <<caller, no_effect, blank_cover, color_mode, files, created,
                   rendered, invoked, doc, page_index, image, raster_size,
                   entry_size, binding_side, rotated_size, stage_log,
                   binding_log, page_status>>

-----------------------------------------------------------------------------
(* Parked values: the variables of a part of the model that a specification *)
(* does not run.                                                            *)

MainIdle ==
    /\ caller = "none"
    /\ no_effect = FALSE
    /\ blank_cover = FALSE
    /\ color_mode = "mono"
    /\ pc = "idle"
    /\ files = {}
    /\ created = {}
    /\ rendered = 0
    /\ output_doc = NoDoc
    /\ invoked = FALSE
    /\ doc = <<>>
    /\ page_index = 0
    /\ events = <<>>
    /\ image = NoImage
    /\ raster_size = NoSize
    /\ entry_size = NoSize
    /\ binding_side = "none"
    /\ rotated_size = NoSize
    /\ stage_log = <<>>
    /\ binding_log = {}
    /\ page_status = "idle"

MulIdle ==
    /\ px = 0
    /\ mask_step = 0
    /\ darkened = FALSE

BrightIdle ==
    /\ b_arr = <<>>
    /\ b_out = <<>>
    /\ b_pc = "idle"
    /\ b_factor = <<1, 1>>

EdgeIdle ==
    /\ e_size = NoSize
    /\ e_page = 0
    /\ e_pc = "idle"
    /\ e_shadow = <<>>
    /\ e_thickness = <<>>

CornerIdle ==
    /\ c_size = NoSize
    /\ c_page = 0
    /\ c_pos = <<0, 0>>
    /\ c_base = "none"
    /\ c_in = 0
    /\ c_mode = "none"
    /\ c_px = 0
    /\ c_alpha = -1
    /\ c_pc = "idle"

ChapterIdle ==
    /\ t_test = FALSE
    /\ t_chapters = 0
    /\ t_i = 0
    /\ t_page_no = 0
    /\ t_pc = "idle"

SmudgeIdle ==
    /\ s_height = 0
    /\ s_mono = TRUE
    /\ s_band_y = 0
    /\ s_band_height = 0
    /\ s_base = 0
    /\ s_lines = 0
    /\ s_line_height = 0
    /\ s_y = 0
    /\ s_row = -1
    /\ s_plain = 0
    /\ s_written = 0
    /\ s_drawn = FALSE
    /\ s_pc = "idle"

FontIdle ==
    /\ f_prefs = <<>>
    /\ f_active = "none"
    /\ f_current = "none"
    /\ f_settable = {}
    /\ f_result = "idle"
    /\ f_calls = 0

-----------------------------------------------------------------------------
(* The document build                                                      *)

Init == MainInit /\ MulIdle /\ BrightIdle /\ EdgeIdle /\ CornerIdle /\ ChapterIdle /\ SmudgeIdle /\ FontIdle

Next ==
    \/ CoverBlank
    \/ CoverSvgUnavailable
    \/ CoverWriteTemp
    \/ CoverEmbed
    \/ CoverRemoveTemp
    \/ CoverJpgFallback
    \/ AddChapters
    \/ OutputNoEffect
    \/ OutputTemp
    \/ RemoveTemp
    \/ Except
    \/ OpenDoc
    \/ Rasterize
    \/ EnterEffect
    \/ Smudge
    \/ Warp
    \/ Edges
    \/ RotateCrop
    \/ Noise
    \/ Scanline
    \/ Brightness
    \/ ReturnImage
    \/ CleanContents
    \/ InsertImage
    \/ SaveDoc

Spec == Init /\ [][Next]_vars

-----------------------------------------------------------------------------
(* SpecMul: add_dark_edges lines 240, 312, 313 on one pixel.  The image is *)
(* mode L there; each mask value is drawn from the values the mask can     *)
(* hold.                                                                   *)

MaxIntensity == 255

Intensities == 0 .. MaxIntensity

\* thickness_shadow holds 255 or int(245 + (x / thickness_width) * 10), x < width
ThicknessValues == 245 .. MaxIntensity

\* the masks combined by ImageChops.screen instead
MultiplyAsScreen(a, b) == MaxIntensity - (((MaxIntensity - a) * (MaxIntensity - b)) \div MaxIntensity)

\* ImageChops.multiply on one pixel: in1 * in2 / 255 in integer arithmetic
Multiply(a, b) == (a * b) \div MaxIntensity

MulInit ==
    /\ px \in Intensities
    /\ mask_step = 0
    /\ darkened = FALSE

MultiplyBy(m) ==
    /\ px' = Multiply(px, m)
    /\ darkened' = (darkened \/ Multiply(px, m) < px)
    /\ mask_step' = mask_step + 1
    /\ UNCHANGED <<mainVars, brightVars, edgeVars, cornerVars, chapterVars, smudgeVars, fontVars>>

\* line 240: image = ImageChops.multiply(image, edge_mask_blurred)
MultiplyEdgeMask ==
    /\ mask_step = 0
    /\ \E m \in Intensities : MultiplyBy(m)

\* line 312: image = ImageChops.multiply(image, shadow)
MultiplyShadow ==
    /\ mask_step = 1
    /\ \E m \in Intensities : MultiplyBy(m)

\* line 313: image = ImageChops.multiply(image, thickness_shadow)
MultiplyThickness ==
    /\ mask_step = 2
    /\ \E m \in ThicknessValues : MultiplyBy(m)

MulNext ==
    \/ MultiplyEdgeMask
    \/ MultiplyShadow
    \/ MultiplyThickness

InitMul == MulInit /\ MainIdle /\ BrightIdle /\ EdgeIdle /\ CornerIdle /\ ChapterIdle /\ SmudgeIdle /\ FontIdle

SpecMul == InitMul /\ [][MulNext]_vars

-----------------------------------------------------------------------------
(* SpecBright: adjust_brightness_based_on_text, lines 358-366, on arrays   *)
(* of up to MaxPixels values.  brightness_factor is kept as an exact       *)
(* fraction; the float rounding of the source is not modelled.             *)

MaxPixels == 3

\* values on both sides of the threshold of line 360
PixelValues == {0, 127, 128, 255}

Arrays == UNION {[1 .. k -> PixelValues] : k \in 1 .. MaxPixels}

\* line 360: np.sum(arr < 128)
TextPixels(arr) == Cardinality({i \in DOMAIN arr : arr[i] < 128})

\* the factor with the sign of the correction reversed
BrightnessFactorReversed(text_pixels, total_pixels) ==
    <<100 * 2 * total_pixels + 3 * (2 * text_pixels - total_pixels),
      100 * 2 * total_pixels>>

\* lines 362-363: 1.0 - 0.03 * (text_pixels / total_pixels - 0.5)
\*   = (200 n - 3 (2 k - n)) / (200 n)
BrightnessFactor(text_pixels, total_pixels) ==
    <<100 * 2 * total_pixels - 3 * (2 * text_pixels - total_pixels),
      100 * 2 * total_pixels>>

\* lines 364-365, ImageEnhance.Brightness: blend of black and the image with
\* alpha = factor, truncated and clipped to 0..255
Enhance(v, f) ==
    LET t == (v * f[1]) \div f[2]
    IN  IF t > MaxIntensity THEN MaxIntensity ELSE t

BrightInit ==
    /\ b_arr \in Arrays
    /\ b_out = <<>>
    /\ b_pc = "call"
    /\ b_factor = <<1, 1>>

AdjustBrightness ==
    /\ b_pc = "call"
    /\ LET f == BrightnessFactor(TextPixels(b_arr), Len(b_arr))
       IN  /\ b_factor' = f
           /\ b_out' = [i \in DOMAIN b_arr |-> Enhance(b_arr[i], f)]
    /\ b_arr' = b_arr
    /\ b_pc' = "done"
    /\ UNCHANGED <<mainVars, mulVars, edgeVars, cornerVars, chapterVars, smudgeVars, fontVars>>

BrightNext == AdjustBrightness

InitBright == BrightInit /\ MainIdle /\ MulIdle /\ EdgeIdle /\ CornerIdle /\ ChapterIdle /\ SmudgeIdle /\ FontIdle

SpecBright == InitBright /\ [][BrightNext]_vars

-----------------------------------------------------------------------------
(* SpecEdges: the binding-dependent masks of add_dark_edges, lines 227-309, *)
(* for an odd page and the even page that follows it, on images of the     *)
(* same size.  A mask is a function of the column: `thickness_shadow` is   *)
(* constant along each column, and an entry of `shadow` names the column   *)
(* of shadow_gradient and of deep_shadow it was pasted from, which stands  *)
(* for that whole column of pixels (the gradient, its random bands and its *)
(* blur are the same for both pages when the draws are the same).          *)

MaxEdgeUnits == 4

\* image sizes with edge_width >= 1
EdgeSizes == {<<50 * i, 50 * j>> : i \in 1 .. MaxEdgeUnits, j \in 1 .. MaxEdgeUnits}

Min(a, b) == IF a < b THEN a ELSE b

\* line 227: int(min(width, height) * 0.02)
EdgeWidth(width, height) == (Min(width, height) * 2) \div 100

\* line 247
BindingWidth(edge_width) == edge_width * 4

\* line 280: int(binding_width * 0.3)
DeepShadowWidth(binding_width) == (binding_width * 3) \div 10

\* line 302
ThicknessWidth(edge_width) == edge_width * 2

\* line 305: int(245 + (x / thickness_width) * 10)
ThicknessIntensity(x, thickness_width) == 245 + ((x * 10) \div thickness_width)

\* Image.new('L', (width, height), color=255), as an entry per column
Untouched == [layer |-> "none", col |-> -1, under |-> -1]

\* lines 243, 248-277: shadow, and column c of shadow_gradient
NewShadow(width) == [c \in 0 .. width - 1 |-> Untouched]
ShadowGradient(binding_width) ==
    [c \in 0 .. binding_width - 1 |-> [layer |-> "gradient", col |-> c, under |-> -1]]

\* lines 281-287: column c of deep_shadow
DeepShadow(deep_shadow_width) ==
    [c \in 0 .. deep_shadow_width - 1 |-> [layer |-> "deep", col |-> c, under |-> -1]]

\* Image.transpose(Image.FLIP_LEFT_RIGHT) of an image n columns wide
FlipLeftRight(im, n) == [c \in 0 .. n - 1 |-> im[n - 1 - c]]

\* Image.paste(im, (at, 0)) of an image n columns wide
Paste(dst, im, n, at) ==
    [c \in DOMAIN dst |-> IF at <= c /\ c < at + n THEN im[c - at] ELSE dst[c]]

\* Image.paste(im, (at, 0), im): each pixel is blended with what is under it
PasteMasked(dst, im, n, at) ==
    [c \in DOMAIN dst |->
        IF at <= c /\ c < at + n
            THEN [im[c - at] EXCEPT !.under = dst[c].col]
            ELSE dst[c]]

\* ImageDraw.line([(x, 0), (x, height)], fill): a column outside the canvas is clipped
DrawColumn(mask, width, x, fill) ==
    IF 0 <= x /\ x < width THEN [mask EXCEPT ![x] = fill] ELSE mask

\* lines 304-309: the loop, from x up to thickness_width - 1
RECURSIVE DrawThickness(_, _, _, _, _)
DrawThickness(mask, width, x, thickness_width, side) ==
    IF x >= thickness_width THEN mask
    ELSE DrawThickness(
            DrawColumn(mask, width, IF side = "left" THEN width - x ELSE x,
                       ThicknessIntensity(x, thickness_width)),
            width, x + 1, thickness_width, side)

EdgeInit ==
    /\ e_size \in EdgeSizes
    /\ e_page = 1
    /\ e_pc = "shadow"
    /\ e_shadow = [p \in {1, 2} |-> <<>>]
    /\ e_thickness = [p \in {1, 2} |-> <<>>]

\* lines 243-277 and the first paste of lines 290-297
PasteShadowGradient ==
    /\ e_pc = "shadow"
    /\ LET width == e_size[1]
           bw    == BindingWidth(EdgeWidth(e_size[1], e_size[2]))
       IN  e_shadow' = [e_shadow EXCEPT ![e_page] =
              IF BindingSide(e_page) = "left"
                  THEN Paste(NewShadow(width), ShadowGradient(bw), bw, 0)
                  ELSE Paste(NewShadow(width),
                             FlipLeftRight(ShadowGradient(bw), bw), bw, width - bw)]
    /\ e_pc' = "deep"
    /\ UNCHANGED <<e_size, e_page, e_thickness>>
    /\ UNCHANGED <<mainVars, mulVars, brightVars, cornerVars, chapterVars, smudgeVars, fontVars>>

\* lines 280-287 and the second paste of lines 290-297
PasteDeepShadow ==
    /\ e_pc = "deep"
    /\ LET width == e_size[1]
           dsw   == DeepShadowWidth(BindingWidth(EdgeWidth(e_size[1], e_size[2])))
       IN  e_shadow' = [e_shadow EXCEPT ![e_page] =
              IF BindingSide(e_page) = "left"
                  THEN PasteMasked(@, DeepShadow(dsw), dsw, 0)
                  ELSE PasteMasked(@, FlipLeftRight(DeepShadow(dsw), dsw), dsw,
                                   width - dsw)]
    /\ e_pc' = "thickness"
    /\ UNCHANGED <<e_size, e_page, e_thickness>>
    /\ UNCHANGED <<mainVars, mulVars, brightVars, cornerVars, chapterVars, smudgeVars, fontVars>>

\* lines 300-309
DrawThicknessShadow ==
    /\ e_pc = "thickness"
    /\ LET width == e_size[1]
           tw    == ThicknessWidth(EdgeWidth(e_size[1], e_size[2]))
       IN  e_thickness' = [e_thickness EXCEPT ![e_page] =
              DrawThickness([c \in 0 .. width - 1 |-> MaxIntensity], width, 0, tw,
                            BindingSide(e_page))]
    /\ e_pc' = "return"
    /\ UNCHANGED <<e_size, e_page, e_shadow>>
    /\ UNCHANGED <<mainVars, mulVars, brightVars, cornerVars, chapterVars, smudgeVars, fontVars>>

\* line 315 and the next iteration of the page loop (line 370)
NextFacingPage ==
    /\ e_pc = "return"
    /\ IF e_page = 1 THEN e_page' = 2 /\ e_pc' = "shadow"
                     ELSE e_page' = e_page /\ e_pc' = "done"
    /\ UNCHANGED <<e_size, e_shadow, e_thickness>>
    /\ UNCHANGED <<mainVars, mulVars, brightVars, cornerVars, chapterVars, smudgeVars, fontVars>>

EdgeNext ==
    \/ PasteShadowGradient
    \/ PasteDeepShadow
    \/ DrawThicknessShadow
    \/ NextFacingPage

InitEdges == EdgeInit /\ MainIdle /\ MulIdle /\ BrightIdle /\ CornerIdle /\ ChapterIdle /\ SmudgeIdle /\ FontIdle

SpecEdges == InitEdges /\ [][EdgeNext]_vars

-----------------------------------------------------------------------------
(* SpecCorners: round_corners, lines 209-223, on one pixel of the image it *)
(* is handed: the only call, line 205, passes Image.fromarray of the 2-D   *)
(* warped array, an L image.  The pie slices are taken as the quarter discs of radius     *)
(* 0.03 * width centred at (radius, radius) etc.; the rasteriser's         *)
(* treatment of the pixels on the arc itself is not modelled.  An RGB      *)
(* pixel is grey, (v, v, v), whose L value is v.                           *)

\* sizes of the image, radius 3 and 6
CornerSizes == {<<100, 100>>, <<100, 140>>, <<200, 100>>}

\* line 213: radius = width * 0.03, in hundredths of a pixel
RadiusScaled(width) == width * 3

\* columns and rows tried: at the edges, inside the discs, past them
CornerColumns(width) ==
    LET r == RadiusScaled(width) \div 100
    IN  {0, r - 1, r + 2, width - r - 3, width - r, width - 1}
CornerRows(width, height) ==
    LET r == RadiusScaled(width) \div 100
    IN  {0, r - 1, r + 2, height - r - 3, height - r, height - 1}

\* (x, y) lies in the quarter disc of the circle centred at (cx, cy) / 100
\* towards the corner (sx, sy), sx, sy in {-1, 1}
InQuarterDisc(x, y, cx, cy, r, sx, sy) ==
    /\ (100 * x - cx) * sx >= 0
    /\ (100 * y - cy) * sy >= 0
    /\ (100 * x - cx) * (100 * x - cx) + (100 * y - cy) * (100 * y - cy) <= r * r

\* lines 211-220: the mask is 255, and 0 inside the two pie slices on the
\* binding side
CornerMask(x, y, width, height, side) ==
    LET r == RadiusScaled(width)
    IN  IF side = "left"
          THEN IF \/ InQuarterDisc(x, y, r, r, r, -1, -1)
                  \/ InQuarterDisc(x, y, r, 100 * height - r, r, -1, 1)
                 THEN 0 ELSE MaxIntensity
          ELSE IF \/ InQuarterDisc(x, y, 100 * width - r, r, r, 1, -1)
                  \/ InQuarterDisc(x, y, 100 * width - r, 100 * height - r, r, 1, 1)
                 THEN 0 ELSE MaxIntensity

\* Image.putalpha: an L image becomes LA, an RGB image RGBA
ModeWithAlpha(mode) == IF mode = "L" THEN "LA" ELSE "RGBA"

\* line 222, image.convert('L'): the L value of the pixel; the alpha band is
\* dropped, not applied
ConvertToL(value, alpha) == value

\* the mode the conversion of line 222 gives
ConvertedMode(base) == "L"

CornerInit ==
    /\ c_size \in CornerSizes
    /\ c_page \in {1, 2}
    /\ c_pos \in CornerColumns(c_size[1]) \X CornerRows(c_size[1], c_size[2])
    /\ c_base = "L"
    /\ c_in \in {0, 128, MaxIntensity}
    /\ c_mode = c_base
    /\ c_px = c_in
    /\ c_alpha = -1
    /\ c_pc = "putalpha"

cornerFrame == <<mainVars, mulVars, brightVars, edgeVars, chapterVars, smudgeVars, fontVars>>

\* lines 210-221: the mask is drawn and becomes the alpha band
PutAlpha ==
    /\ c_pc = "putalpha"
    /\ c_alpha' = CornerMask(c_pos[1], c_pos[2], c_size[1], c_size[2],
                             BindingSide(c_page))
    /\ c_mode' = ModeWithAlpha(c_mode)
    /\ c_pc' = "convert"
    /\ UNCHANGED <<c_size, c_page, c_pos, c_base, c_in, c_px>>
    /\ UNCHANGED cornerFrame

\* lines 222-223: image = image.convert('L'); return image
ConvertAndReturn ==
    /\ c_pc = "convert"
    /\ c_px' = ConvertToL(c_px, c_alpha)
    /\ c_mode' = ConvertedMode(c_base)
    /\ c_pc' = "done"
    /\ UNCHANGED <<c_size, c_page, c_pos, c_base, c_in, c_alpha>>
    /\ UNCHANGED cornerFrame

CornerNext ==
    \/ PutAlpha
    \/ ConvertAndReturn

InitCorners == CornerInit /\ MainIdle /\ MulIdle /\ BrightIdle /\ EdgeIdle /\ ChapterIdle /\ SmudgeIdle /\ FontIdle

SpecCorners == InitCorners /\ [][CornerNext]_vars

-----------------------------------------------------------------------------
(* SpecChapters: the chapter loop of main, compile_book.py lines 152-161.  *)
(* A chapter adds one page (add_page, pdf_book.py line 236) and as many    *)
(* more as its content overflows onto.                                     *)

MaxChapters == 5
MaxChapterPages == 3

\* line 156: max_pages = 10 if args.test else None
TestLimit == 10
MaxPagesOption(test) == IF test THEN TestLimit ELSE 0

\* line 158: max_pages and pdf.page_no() >= max_pages
LimitReached(max_pages, page_no) == max_pages # 0 /\ page_no >= max_pages

\* line 153: the cover is page 1
ChapterInit ==
    /\ t_test \in BOOLEAN
    /\ t_chapters \in 0 .. MaxChapters
    /\ t_i = 0
    /\ t_page_no = 1
    /\ t_pc = "loop"

chapterFrame == <<mainVars, mulVars, brightVars, edgeVars, cornerVars, smudgeVars, fontVars>>

\* lines 158-160: the limit is looked at before a chapter is added
BreakTestMode ==
    /\ t_pc = "loop"
    /\ t_i < t_chapters
    /\ LimitReached(MaxPagesOption(t_test), t_page_no)
    /\ t_pc' = "done"
    /\ UNCHANGED <<t_test, t_chapters, t_i, t_page_no>>
    /\ UNCHANGED chapterFrame

\* line 161: pdf.add_chapter(title, content), a chapter of n pages
AddChapter ==
    /\ t_pc = "loop"
    /\ t_i < t_chapters
    /\ ~LimitReached(MaxPagesOption(t_test), t_page_no)
    /\ \E n \in 1 .. MaxChapterPages : t_page_no' = t_page_no + n
    /\ t_i' = t_i + 1
    /\ UNCHANGED <<t_test, t_chapters, t_pc>>
    /\ UNCHANGED chapterFrame

\* line 157: the list of chapters is exhausted
ChaptersExhausted ==
    /\ t_pc = "loop"
    /\ t_i = t_chapters
    /\ t_pc' = "done"
    /\ UNCHANGED <<t_test, t_chapters, t_i, t_page_no>>
    /\ UNCHANGED chapterFrame

ChapterNext ==
    \/ BreakTestMode
    \/ AddChapter
    \/ ChaptersExhausted

InitChapters == ChapterInit /\ MainIdle /\ MulIdle /\ BrightIdle /\ EdgeIdle /\ CornerIdle /\ SmudgeIdle /\ FontIdle

SpecChapters == InitChapters /\ [][ChapterNext]_vars

-----------------------------------------------------------------------------
(* SpecSmudge: add_toner_smudges, photocopy_effect.py lines 48-146: the     *)
(* band, and the points of its vertical lines.  The column x of a line is   *)
(* inside the printable width and is left out; of a colour smudge one       *)
(* channel is followed.                                                     *)

\* lines finished before the model stops (num_lines is 0.8 * printable_width)
MaxSmudgeLines == 2

\* heights of the image: the heights of PageSizes
SmudgeHeights == {75, 140, 1684}

\* np.random.randint(low, high) with both ends among its values
RandIntInclusive(low, high) == {low, (low + high) \div 2, high}

\* np.random.randint(low, high) returns low .. high - 1; the least, a middle
\* and the greatest of these values are tried
RandInt(low, high) == {low, (low + high - 1) \div 2, high - 1}

\* lines 78, 102-109: base_intensity, or a channel of one of the four colors
BaseValues(mono) == IF mono THEN RandInt(215, 225) ELSE {230, MaxIntensity}

\* lines 85, 116: fade_height = line_height * 0.7 (mono), * 0.2 (colour),
\* in tenths
FadeTenths(mono) == IF mono THEN 7 ELSE 2

\* lines 87, 118: y_offset < fade_height
InFade(y_offset, line_height, mono) ==
    10 * y_offset < FadeTenths(mono) * line_height

\* lines 89-90, 119-120: int(255 - (255 - base) * y_offset / fade_height)
FadeIntensity(base, y_offset, line_height, mono) ==
    MaxIntensity - CeilDiv((MaxIntensity - base) * 10 * y_offset,
                           FadeTenths(mono) * line_height)

\* lines 87-93, 118-122: the intensity of the row before the variation
PlainIntensity(base, y_offset, line_height, mono) ==
    IF InFade(y_offset, line_height, mono)
      THEN FadeIntensity(base, y_offset, line_height, mono)
      ELSE base

\* lines 96, 126: min(255, max(220, value))
ClampIntensity(value) ==
    IF value < 220 THEN 220
    ELSE IF value > MaxIntensity THEN MaxIntensity ELSE value

SmudgeInit ==
    /\ s_height \in SmudgeHeights
    /\ s_mono \in BOOLEAN
    /\ s_band_y = 0
    /\ s_band_height = 0
    /\ s_base = 0
    /\ s_lines = 0
    /\ s_line_height = 0
    /\ s_y = 0
    /\ s_row = -1
    /\ s_plain = 0
    /\ s_written = 0
    /\ s_drawn = FALSE
    /\ s_pc = "trigger"

smudgeFrame == <<mainVars, mulVars, brightVars, edgeVars, cornerVars, chapterVars, fontVars>>

\* line 63 false, line 146: no smudge, the image is returned as it is
NoSmudge ==
    /\ s_pc = "trigger"
    /\ s_pc' = "returned"
    /\ UNCHANGED <<s_height, s_mono, s_band_y, s_band_height, s_base, s_lines,
                   s_line_height, s_y, s_row, s_plain, s_written, s_drawn>>
    /\ UNCHANGED smudgeFrame

\* line 63 true, lines 66-78 / 102-109: the band and the base value are drawn
ChooseBand ==
    /\ s_pc = "trigger"
    /\ s_band_y' \in RandInt(s_height \div 8, s_height \div 2)
    /\ s_band_height' \in RandInt(50, 70)
    /\ s_base' \in BaseValues(s_mono)
    /\ s_pc' = "line"
    /\ UNCHANGED <<s_height, s_mono, s_lines, s_line_height, s_y, s_row,
                   s_plain, s_written, s_drawn>>
    /\ UNCHANGED smudgeFrame

\* lines 80-82 / 111-113: the next line and its height
StartLine ==
    /\ s_pc = "line"
    /\ s_lines < MaxSmudgeLines
    /\ \E variation \in RandInt(-5, 5) :
         s_line_height' = s_band_height + variation
    /\ s_y' = 0
    /\ s_pc' = "point"
    /\ UNCHANGED <<s_height, s_mono, s_band_y, s_band_height, s_base, s_lines,
                   s_row, s_plain, s_written, s_drawn>>
    /\ UNCHANGED smudgeFrame

\* lines 86-99 / 117-128: one pass of the loop over y_offset; draw.point
\* leaves out a point that is not on the canvas
DrawPoint ==
    /\ s_pc = "point"
    /\ s_y < s_line_height
    /\ s_plain' = PlainIntensity(s_base, s_y, s_line_height, s_mono)
    /\ \E variation \in RandInt(-3, 3) :
         s_written' = ClampIntensity(s_plain' + variation)
    /\ s_row' = s_band_y + s_y
    /\ s_drawn' = (s_row' < s_height)
    /\ s_y' = s_y + 1
    /\ UNCHANGED <<s_height, s_mono, s_band_y, s_band_height, s_base, s_lines,
                   s_line_height, s_pc>>
    /\ UNCHANGED smudgeFrame

\* lines 86 / 117: range(line_height) is exhausted
EndLine ==
    /\ s_pc = "point"
    /\ s_y = s_line_height
    /\ s_lines' = s_lines + 1
    /\ s_pc' = "line"
    /\ UNCHANGED <<s_height, s_mono, s_band_y, s_band_height, s_base,
                   s_line_height, s_y, s_row, s_plain, s_written, s_drawn>>
    /\ UNCHANGED smudgeFrame

\* lines 133-143: the lines are done; blur, blend with the image, return
BlendSmudge ==
    /\ s_pc = "line"
    /\ s_lines = MaxSmudgeLines
    /\ s_pc' = "returned"
    /\ UNCHANGED <<s_height, s_mono, s_band_y, s_band_height, s_base, s_lines,
                   s_line_height, s_y, s_row, s_plain, s_written, s_drawn>>
    /\ UNCHANGED smudgeFrame

SmudgeNext ==
    \/ NoSmudge
    \/ ChooseBand
    \/ StartLine
    \/ DrawPoint
    \/ EndLine
    \/ BlendSmudge

InitSmudge == SmudgeInit /\ MainIdle /\ MulIdle /\ BrightIdle /\ EdgeIdle /\ CornerIdle /\ ChapterIdle /\ FontIdle

SpecSmudge == InitSmudge /\ [][SmudgeNext]_vars

-----------------------------------------------------------------------------
(* SpecFont: PDFBook.set_font_with_fallback, pdf_book.py lines 57-88.  A    *)
(* call is one step.  What the library answers is an input of the call:     *)
(* the fonts for which set_font(font, style, size) does not raise           *)
(* RuntimeError, whether text is empty, and the fonts in which text has a   *)
(* width above 0.                                                           *)

MaxCalls == 3

\* the fonts main appends to font_preferences (compile_book.py 110, 123,
\* 134, 145)
Fonts == {"EBGaramond", "TimesNewRoman", "DejaVuSerif", "NotoSerif"}

\* font_preferences: lists of different fonts, the empty list included
FontLists ==
    {<<>>} \cup {<<a>> : a \in Fonts}
           \cup {pair \in Fonts \X Fonts : pair[1] # pair[2]}

\* lines 60-67: the loop of the first branch from position i on; `current`
\* is the font selected so far.  A font that cannot be set is skipped; one
\* that is set but gives the text no width stays selected while the loop
\* goes on.
RECURSIVE TryPreferences(_, _, _, _, _, _)
TryPreferences(prefs, i, current, settable, text_empty, wide) ==
    IF i > Len(prefs)
      THEN [active |-> "none", current |-> current]
      ELSE IF prefs[i] \notin settable
             THEN TryPreferences(prefs, i + 1, current, settable, text_empty, wide)
             ELSE IF text_empty \/ prefs[i] \in wide
                    THEN [active |-> prefs[i], current |-> prefs[i]]
                    ELSE TryPreferences(prefs, i + 1, prefs[i], settable,
                                        text_empty, wide)

\* lines 76-84: the loop over the fonts other than the active one
RECURSIVE TryOthers(_, _, _, _, _, _)
TryOthers(prefs, i, active, current, settable, wide) ==
    IF i > Len(prefs)
      THEN [active |-> active, current |-> current]
      ELSE IF prefs[i] = active \/ prefs[i] \notin settable
             THEN TryOthers(prefs, i + 1, active, current, settable, wide)
             ELSE IF prefs[i] \in wide
                    THEN [active |-> prefs[i], current |-> prefs[i]]
                    ELSE TryOthers(prefs, i + 1, active, prefs[i], settable, wide)

\* lines 58-69: no active font; the RuntimeError of line 69 when none is found
FirstBranch(prefs, current, settable, text_empty, wide) ==
    LET r == TryPreferences(prefs, 1, current, settable, text_empty, wide)
    IN  [active |-> r.active, current |-> r.current,
         result |-> IF r.active = "none" THEN "raised" ELSE "returned"]

\* lines 70-88: an active font; when it cannot be set, active_font is reset
\* and the method calls itself (lines 85-88)
SecondBranch(prefs, active, current, settable, text_empty, wide) ==
    IF active \notin settable
      THEN FirstBranch(prefs, current, settable, text_empty, wide)
      ELSE IF ~text_empty /\ active \notin wide
             THEN LET r == TryOthers(prefs, 1, active, active, settable, wide)
                  IN  [active |-> r.active, current |-> r.current,
                       result |-> "returned"]
             ELSE [active |-> active, current |-> active, result |-> "returned"]

\* lines 54-55: the object after __init__, with font_preferences filled by
\* its user
FontInit ==
    /\ f_prefs \in FontLists
    /\ f_active = "none"
    /\ f_current = "none"
    /\ f_settable = {}
    /\ f_result = "idle"
    /\ f_calls = 0

fontFrame == <<mainVars, mulVars, brightVars, edgeVars, cornerVars, chapterVars, smudgeVars>>

\* a call while active_font is None
SetFontNoActive ==
    /\ f_calls < MaxCalls
    /\ f_active = "none"
    /\ \E settable \in SUBSET Fonts, text_empty \in BOOLEAN, wide \in SUBSET Fonts :
         LET r == FirstBranch(f_prefs, f_current, settable, text_empty, wide)
         IN  /\ f_active' = r.active
             /\ f_current' = r.current
             /\ f_result' = r.result
             /\ f_settable' = settable
    /\ f_calls' = f_calls + 1
    /\ UNCHANGED f_prefs
    /\ UNCHANGED fontFrame

\* a call while active_font is set
SetFontActive ==
    /\ f_calls < MaxCalls
    /\ f_active # "none"
    /\ \E settable \in SUBSET Fonts, text_empty \in BOOLEAN, wide \in SUBSET Fonts :
         LET r == SecondBranch(f_prefs, f_active, f_current, settable,
                               text_empty, wide)
         IN  /\ f_active' = r.active
             /\ f_current' = r.current
             /\ f_result' = r.result
             /\ f_settable' = settable
    /\ f_calls' = f_calls + 1
    /\ UNCHANGED f_prefs
    /\ UNCHANGED fontFrame

FontNext ==
    \/ SetFontNoActive
    \/ SetFontActive

InitFont == FontInit /\ MainIdle /\ MulIdle /\ BrightIdle /\ EdgeIdle /\ CornerIdle /\ ChapterIdle /\ SmudgeIdle

SpecFont == InitFont /\ [][FontNext]_vars

-----------------------------------------------------------------------------
(* Claims                                                                  *)

\* C1: whenever add_photocopy_effect has returned, the returned image has
\* exactly the width and height of the image it was given, whatever the
\* page, its size and the random angle of the rotation.
C1_DimensionInvariance ==
    page_status = "returned" => <<image.w, image.h>> = raster_size

\* a page has come back after a rotation that did expand the canvas
C1_Witness ==
    /\ page_status = "returned"
    /\ rotated_size # NoSize
    /\ rotated_size[1] > raster_size[1]
    /\ rotated_size[2] > raster_size[2]

\* C2 (as claimed): every page that entered add_photocopy_effect and whose
\* processing has ended has run each of the seven stages exactly once, in
\* the fixed order, whatever the colour mode.
C2_EveryStageRunsOnce ==
    (page_status \in {"returned", "raised"} /\ entry_size # NoSize)
        => stage_log = StageOrder

\* C3: every binding-dependent stage (warp, corner rounding, shadow) of the
\* page with index i receives Left when i + 1 is odd and Right when it is
\* even, and all of them receive the same side for the same page.
C3_BindingByParity ==
    /\ \A b \in binding_log :
          b.side = IF (b.index + 1) % 2 = 1 THEN "left" ELSE "right"
    /\ \A b1, b2 \in binding_log : b1.index = b2.index => b1.side = b2.side

\* the second page has gone through all three binding-dependent stages
C3_Witness ==
    \A s \in {"warp", "round_corners", "edges"} :
        /\ [index |-> 0, stage |-> s, side |-> "left"] \in binding_log
        /\ [index |-> 1, stage |-> s, side |-> "right"] \in binding_log

\* C4: with --no-effect, apply_photocopy_effect is never invoked, no page
\* is rasterized or modified, temp_book.pdf is not created, and what is
\* written to the output path is the unmodified rendering.
C4_NoEffectBypass ==
    (caller = "main" /\ no_effect) =>
        /\ ~invoked
        /\ TempBook \notin created
        /\ TempBook \notin files
        /\ image = NoImage
        /\ stage_log = <<>>
        /\ doc = <<>>
        /\ output_doc \in {NoDoc, Rendering(rendered)}

\* a --no-effect build has written its output and ended
C4_Witness ==
    /\ caller = "main"
    /\ no_effect
    /\ pc = "done"
    /\ rendered > 0
    /\ output_doc = Rendering(rendered)

\* C6: each of the three masks of add_dark_edges is multiplied in, and no
\* multiplication raises the intensity of the pixel: after each mask the
\* pixel is less than or equal to what it was before that mask.
C6_MasksNeverBrighten == [][px' <= px]_vars

\* a pixel has been through the three masks, was darkened and is not black
C6_Witness ==
    /\ mask_step = 3
    /\ darkened
    /\ px > 0

\* the binding shadow and the deep shadow of the odd page mirror those of
\* the even page
ShadowMirrored ==
    \A c \in 0 .. e_size[1] - 1 :
        e_shadow[1][c] = e_shadow[2][e_size[1] - 1 - c]

\* the page-thickness shadow of the odd page mirrors that of the even page
ThicknessMirrored ==
    \A c \in 0 .. e_size[1] - 1 :
        e_thickness[1][c] = e_thickness[2][e_size[1] - 1 - c]

\* C7 (as claimed): for the same image size and the same draws, the binding
\* shadow, deep shadow and page-thickness masks of an odd page are exact
\* left-right mirror images of those of the adjacent even page.
C7_MasksMirrored ==
    e_pc = "done" => (ShadowMirrored /\ ThicknessMirrored)

\* C8 (as claimed): when the build has ended, on any path, every temporary
\* file it created (temp_book.pdf, temp_cover.png) has been removed.
C8_TempFilesRemoved ==
    pc = "done" => (created \cap files = {})

\* C9: a document is written to the output path only when every page of the
\* open document has been degraded and reinserted; when the processing of a
\* page has failed and the run has ended, no output document was written
\* and temp_book.pdf is gone.
C9_AllOrNothing ==
    /\ (invoked /\ output_doc # NoDoc) =>
          /\ Len(output_doc) = Len(doc)
          /\ \A i \in 1 .. Len(output_doc) : HasImage(output_doc[i])
    /\ (page_status = "raised" /\ pc \in {"done", "raised"}) =>
          /\ output_doc = NoDoc
          /\ TempBook \notin files

\* a build whose second page failed, after the first was degraded, has ended
C9_Witness ==
    /\ caller = "main"
    /\ page_status = "raised"
    /\ pc = "done"
    /\ TempBook \in created
    /\ page_index = 1
    /\ HasImage(doc[1])

\* C10: with k values below 128 out of n, brightness_factor is below 1 when
\* 2k > n, above 1 when 2k < n, exactly 1 when 2k = n, and always within
\* [0.985, 1.015].
C10_BrightnessDirection ==
    b_pc = "done" =>
        LET k == Cardinality({i \in DOMAIN b_arr : b_arr[i] < 128})
            n == Len(b_arr)
            num == b_factor[1]
            den == b_factor[2]
        IN  /\ den > 0
            /\ (2 * k > n => num < den)
            /\ (2 * k < n => num > den)
            /\ (2 * k = n => num = den)
            /\ 985 * den <= 1000 * num
            /\ 1000 * num <= 1015 * den

\* a text-dense array has been given a factor below 1
C10_Witness ==
    /\ b_pc = "done"
    /\ 2 * Cardinality({i \in DOMAIN b_arr : b_arr[i] < 128}) > Len(b_arr)
    /\ b_factor[1] < b_factor[2]


\* C11 (as claimed): after round_corners a pixel inside one of the two
\* cut-outs on the binding side has been darkened (a white pixel is no
\* longer 255 there), and a pixel outside them keeps its value.
C11_CornersDarkened ==
    c_pc = "done" =>
        /\ (c_alpha = 0 /\ c_in = MaxIntensity) => c_px < MaxIntensity
        /\ (c_alpha = MaxIntensity) => c_px = c_in

\* C15: from the conversion at the entry of add_photocopy_effect until its
\* return, so after every stage that has run (the warp with its corner
\* rounding included), the image is single-channel (L) in Mono mode and
\* three-channel (RGB) in Color mode.
C15_ModePropagated ==
    pc \in {"smudge", "warp", "edges", "rotate_crop", "noise", "scanline",
            "brightness", "return"} =>
        /\ color_mode = "mono" => image.mode = "L"
        /\ color_mode = "color" => image.mode = "RGB"

\* a Mono page that every stage has worked on, before it is returned
C15_Witness ==
    /\ pc = "return"
    /\ color_mode = "mono"
    /\ stage_log = StageOrder
    /\ image.mode = "L"

\* C12 (as claimed): with --test the document holds at most 10 pages after
\* the chapter loop, whatever the chapters and their lengths.
C12_TestModePageLimit ==
    (t_pc = "done" /\ t_test) => t_page_no <= TestLimit

\* The events of one pass of the loop body, lines 374-381, in program order.
PageEvents == <<"rasterize", "degrade", "clean", "insert">>

\* The k-th event of a run over total_pages pages that nothing interrupts:
\* the four events of page 0, of page 1, ..., then the save.
ExpectedEvent(k, total_pages) ==
    IF k = 4 * total_pages + 1
      THEN Event("save", total_pages)
      ELSE Event(PageEvents[((k - 1) % 4) + 1], (k - 1) \div 4)

\* C13 (as claimed): the page loop handles every page once, in ascending
\* order; for each page the events are rasterize, degrade (every stage has
\* run), clean, insert, in that order; what the page drew before has been
\* stripped when its image is inserted, so a page that has its image draws
\* the image and nothing else; the document is saved only after the last
\* page's image has been inserted.
C13_PageLifecycle ==
    /\ Len(events) <= 4 * Len(doc) + 1
    /\ \A k \in 1 .. Len(events) : events[k] = ExpectedEvent(k, Len(doc))
    /\ pc = "clean_contents" => stage_log = StageOrder
    /\ pc = "insert_image" => doc[page_index + 1] = <<>>
    /\ \A k \in 1 .. Len(events) :
         events[k].ev = "insert" => doc[events[k].index + 1] = <<"image">>
    /\ (invoked /\ output_doc # NoDoc) =>
         /\ Len(events) = 4 * Len(doc) + 1
         /\ \A i \in 1 .. Len(doc) : output_doc[i] = <<"image">>

\* C14 (as claimed): with a colour mode that is neither mono nor color the
\* run is aborted before any page is degraded with that mode: the mode is
\* not taken for a supported one by the conversion of lines 14-17, so the
\* first stage is never reached, and no stage runs.
C14_UnsupportedModeFatal ==
    color_mode \notin {"mono", "color"} =>
        /\ pc \notin {"smudge", "warp"}
        /\ stage_log = <<>>

\* C16 (as claimed): every smudge point is drawn at a row that lies in the
\* upper half of the page (row < height / 2) and inside the canvas.
C16_SmudgeRowsInUpperHalf ==
    s_row >= 0 => (2 * s_row < s_height /\ s_row < s_height)

\* C16 (amended): the band starts in the upper half of the page
\* (height div 8 <= band_y < height / 2) and is 50 to 69 rows high; every
\* smudge point is computed for a row from band_y to band_y + band_height + 3,
\* which may lie below the middle of the page or below the canvas, and only
\* the points on the canvas are drawn.
C16_SmudgeBandPosition ==
    /\ s_pc \in {"line", "point"} =>
         /\ s_height \div 8 <= s_band_y
         /\ 2 * s_band_y < s_height
         /\ s_band_height >= 50
         /\ s_band_height < 70
    /\ s_row >= 0 =>
         /\ s_band_y <= s_row
         /\ s_row < s_band_y + s_band_height + 4
         /\ s_drawn <=> s_row < s_height

\* a point below the middle of the page that is drawn, at the last row a
\* band can have
C16_Witness ==
    /\ s_row = s_band_y + 72
    /\ 2 * s_row >= s_height
    /\ s_drawn

\* C17 (as claimed): in Mono mode the intensity handed to draw.point differs
\* by at most 3 from the intensity of its row before the variation.
C17_SmudgeJitterBound ==
    (s_mono /\ s_row >= 0) => Abs(s_written - s_plain) <= 3

\* C18 (as claimed): whenever a call of set_font_with_fallback returns
\* normally, active_font is a member of font_preferences and is the font
\* the document has selected; a call in which no font of font_preferences
\* can be set does not return normally.
C18_FontFallbackConsistent ==
    f_result = "returned" =>
        /\ \E i \in 1 .. Len(f_prefs) : f_prefs[i] = f_active
        /\ f_current = f_active
        /\ \E i \in 1 .. Len(f_prefs) : f_prefs[i] \in f_settable

====
